---- MODULE Spec2Model ----
(***************************************************************************)
(* Argon2ID password hashing with a bcrypt-like API (package argon2id).    *)
(*                                                                         *)
(* Strings are sequences of one-character strings, byte slices are         *)
(* sequences of 0..255.  A uint32 is a pair <<hi, lo>> of 16-bit limbs     *)
(* (value hi * 65536 + lo), so that the whole range 0 .. 2^32-1 is         *)
(* represented exactly.  A *Params pointer is a sequence of length 0 (nil) *)
(* or 1 (the struct pointed to).                                           *)
(***************************************************************************)
EXTENDS Integers, Sequences, FiniteSets, TLC

VARIABLES
    op,             \* the exported function called last ("init" before any call)
    args,           \* its arguments
    ret,            \* what it returned, or that it panicked
    kdfLog,         \* the argon2.IDKey invocations that call made, in order
    hashedPassword, \* the hash the caller holds (returned by GenerateFromPassword, or loaded)
    gen,            \* the GenerateFromPassword calls that produced the caller's hashes, newest first
    policy,         \* the *Params the caller is configured with (<<>> is nil)
    mu,             \* MigrationUserStore.mu: the Login holding the write lock, 0 when free
    users,          \* MigrationUserStore.users: <<>> or <<the Password field of the one user>>
    login,          \* the Login calls of the migration example: position, locals, result
    created,        \* <<>> or <<how the user was created: password and kind of hash>>
    writes          \* how often migrateUserToArgon2id and checkAndUpgradeHash stored a hash

libVars == <<op, args, ret, kdfLog, hashedPassword, gen, policy>>

storeVars == <<mu, users, login, created, writes>>

vars == <<op, args, ret, kdfLog, hashedPassword, gen, policy, mu, users, login, created, writes>>

(***************************************************************************)
(* uint32 arithmetic on 16-bit limbs.                                      *)
(***************************************************************************)
Limb == 65536

U32(n) == <<n \div Limb, n % Limb>>

Lt32(a, b) == a[1] < b[1] \/ (a[1] = b[1] /\ a[2] < b[2])

Gt32(a, b) == Lt32(b, a)

MaxUint32 == <<Limb - 1, Limb - 1>>

MaxUint8 == <<0, 255>>

(***************************************************************************)
(* Constants of the package.                                               *)
(***************************************************************************)
DefaultTime == 3
DefaultMemory == 65536
DefaultThreads == 2
DefaultKeyLen == 32
SaltLen == 16
MinHashLength == 30
MinTime == 1
MaxTime == 100
MinMemory == 8
MaxMemory == 1048576
MinThreads == 1
MinKeyLen == 4
MaxKeyLen == 128

ErrInvalidHash == "argon2id: invalid hash format"
ErrIncompatibleVersion == "argon2id: incompatible version"
ErrIncompatibleVariant == "argon2id: incompatible variant"
ErrHashTooShort == "argon2id: hash too short"
ErrInvalidParameters == "argon2id: invalid parameters"
ErrParametersTooHigh == "argon2id: parameters too high"
ErrMismatch == "argon2id: password does not match hash"
ErrRand == "crypto/rand: read failed"
NoErr == "nil"

Params(t, m, p, k) == [Time |-> t, Memory |-> m, Threads |-> p, KeyLen |-> k]

\* Mutant of DefaultParams: one thread instead of DefaultThreads.
DefaultParams_oneThread ==
    <<Params(U32(DefaultTime), U32(DefaultMemory), 1, U32(DefaultKeyLen))>>

DefaultParams ==
    <<Params(U32(DefaultTime), U32(DefaultMemory), DefaultThreads, U32(DefaultKeyLen))>>

(***************************************************************************)
(* Text helpers: strings.Split, fmt's %d, strconv.ParseUint and            *)
(* base64.RawStdEncoding, as the package uses them.                        *)
(***************************************************************************)
Digits == <<"0","1","2","3","4","5","6","7","8","9">>

IsDigit(c) == \E i \in 1..10 : Digits[i] = c

DigitVal(c) == (CHOOSE i \in 1..10 : Digits[i] = c) - 1

RECURSIVE Split(_, _)
Split(s, sep) ==
    IF \A i \in 1..Len(s) : s[i] # sep
    THEN <<s>>
    ELSE LET k == CHOOSE i \in 1..Len(s) : s[i] = sep /\ \A j \in 1..(i-1) : s[j] # sep
         IN  <<SubSeq(s, 1, k - 1)>> \o Split(SubSeq(s, k + 1, Len(s)), sep)

RECURSIVE FormatUint(_)
FormatUint(v) ==
    LET t   == (v[1] % 10) * Limb + v[2]
        q   == <<v[1] \div 10, t \div 10>>
    IN  IF q = <<0, 0>> THEN <<Digits[(t % 10) + 1]>>
        ELSE FormatUint(q) \o <<Digits[(t % 10) + 1]>>

RECURSIVE ParseDigits(_, _, _)
ParseDigits(s, n, maxVal) ==
    IF s = <<>> THEN [ok |-> TRUE, value |-> n]
    ELSE IF ~IsDigit(Head(s)) THEN [ok |-> FALSE, value |-> <<0, 0>>]
    ELSE LET lo == n[2] * 10 + DigitVal(Head(s))
             n1 == <<n[1] * 10 + (lo \div Limb), lo % Limb>>
         IN  IF Gt32(n1, maxVal) THEN [ok |-> FALSE, value |-> maxVal]
             ELSE ParseDigits(Tail(s), n1, maxVal)

RECURSIVE WrapDigits(_, _, _)
\* Decimal digits accumulated modulo maxVal + 1.
WrapDigits(s, n, maxVal) ==
    IF s = <<>> THEN [ok |-> TRUE, value |-> n]
    ELSE IF ~IsDigit(Head(s)) THEN [ok |-> FALSE, value |-> <<0, 0>>]
    ELSE LET lo == n[2] * 10 + DigitVal(Head(s))
         IN  WrapDigits(Tail(s),
                        IF maxVal = MaxUint8 THEN <<0, lo % 256>>
                        ELSE <<(n[1] * 10 + (lo \div Limb)) % Limb, lo % Limb>>,
                        maxVal)

\* Mutant of ParseUint: a value out of range wraps around instead of failing.
ParseUint_wrap(s, bitSize) ==
    IF s = <<>> THEN [ok |-> FALSE, value |-> <<0, 0>>]
    ELSE WrapDigits(s, <<0, 0>>, IF bitSize = 8 THEN MaxUint8 ELSE MaxUint32)

ParseUint(s, bitSize) ==
    IF s = <<>> THEN [ok |-> FALSE, value |-> <<0, 0>>]
    ELSE ParseDigits(s, <<0, 0>>, IF bitSize = 8 THEN MaxUint8 ELSE MaxUint32)

encodeStd ==
    << "A", "B", "C", "D", "E", "F", "G", "H", "I", "J", "K", "L", "M", "N", "O", "P",
      "Q", "R", "S", "T", "U", "V", "W", "X", "Y", "Z", "a", "b", "c", "d", "e", "f",
      "g", "h", "i", "j", "k", "l", "m", "n", "o", "p", "q", "r", "s", "t", "u", "v",
      "w", "x", "y", "z", "0", "1", "2", "3", "4", "5", "6", "7", "8", "9", "+", "/" >>

IsStd(c) == \E i \in 1..64 : encodeStd[i] = c

decodeMap(c) == (CHOOSE i \in 1..64 : encodeStd[i] = c) - 1

RECURSIVE EncodeToString(_)
EncodeToString(src) ==
    IF src = <<>> THEN <<>>
    ELSE IF Len(src) = 1 THEN
        <<encodeStd[(src[1] \div 4) + 1], encodeStd[((src[1] % 4) * 16) + 1]>>
    ELSE IF Len(src) = 2 THEN
        <<encodeStd[(src[1] \div 4) + 1],
          encodeStd[((src[1] % 4) * 16 + (src[2] \div 16)) + 1],
          encodeStd[((src[2] % 16) * 4) + 1]>>
    ELSE
        <<encodeStd[(src[1] \div 4) + 1],
          encodeStd[((src[1] % 4) * 16 + (src[2] \div 16)) + 1],
          encodeStd[((src[2] % 16) * 4 + (src[3] \div 64)) + 1],
          encodeStd[(src[3] % 64) + 1]>>
        \o EncodeToString(SubSeq(src, 4, Len(src)))

RECURSIVE decodeQuanta(_)
decodeQuanta(d) ==
    IF d = <<>> THEN <<>>
    ELSE IF Len(d) = 2 THEN <<d[1] * 4 + (d[2] \div 16)>>
    ELSE IF Len(d) = 3 THEN
        <<d[1] * 4 + (d[2] \div 16), (d[2] % 16) * 16 + (d[3] \div 4)>>
    ELSE
        <<d[1] * 4 + (d[2] \div 16), (d[2] % 16) * 16 + (d[3] \div 4), (d[3] % 4) * 64 + d[4]>>
        \o decodeQuanta(SubSeq(d, 5, Len(d)))

DecodeString(s) ==
    LET t == SelectSeq(s, LAMBDA c : c # "\n" /\ c # "\r")
    IN  IF (\E i \in 1..Len(t) : ~IsStd(t[i])) \/ Len(t) % 4 = 1
        THEN [ok |-> FALSE, bytes |-> <<>>]
        ELSE [ok |-> TRUE, bytes |-> decodeQuanta([i \in 1..Len(t) |-> decodeMap(t[i])])]

(***************************************************************************)
(* The external collaborators.                                             *)
(*                                                                         *)
(* argon2.IDKey is a deterministic function of its six arguments that      *)
(* returns keyLen bytes; it panics when time < 1 or threads < 1.  The      *)
(* bytes below stand for the digest: they depend on every argument, which  *)
(* is all the package relies on.                                           *)
(***************************************************************************)
ToInt(v) == v[1] * Limb + v[2]

RECURSIVE Absorb(_, _)
Absorb(h, bs) ==
    IF h < 0 \/ bs = <<>> THEN h ELSE Absorb((h * 31 + Head(bs) + 1) % 65521, Tail(bs))

IDKey(password, salt, time, memory, threads, keyLen) ==
    IF Lt32(time, U32(1)) \/ threads < 1
    THEN [panicked |-> TRUE, key |-> <<>>]
    ELSE LET h0 == Absorb(Absorb(Absorb(7, password), <<Len(password)>> \o salt),
                          time \o memory \o <<threads>> \o keyLen)
         IN  [panicked |-> FALSE,
              key |-> [i \in 1..ToInt(keyLen) |-> ((h0 + i) * ((h0 % 239) + i) + (h0 \div 256)) % 256]]

\* One invocation of the KDF, as kdfLog records it.
KdfCall(p) == [Time |-> p.Time, Memory |-> p.Memory, Threads |-> p.Threads, KeyLen |-> p.KeyLen]

(***************************************************************************)
(* The package's functions.  Each returns a record; the fields a Go        *)
(* function does not return keep the value they have in NoResult.          *)
(***************************************************************************)
NoValue == "(none)"

NoResult ==
    [hash |-> <<>>, err |-> NoValue, params |-> <<>>, salt |-> <<>>, digest |-> <<>>,
     needs |-> FALSE, panicked |-> FALSE, kdf |-> <<>>]

Panic(kdf) == [NoResult EXCEPT !.panicked = TRUE, !.kdf = kdf]

\* Mutant of validateVariantAndVersion: the version is checked first.
validateVariantAndVersion_versionFirst(variant, version) ==
    IF version # <<"v","=","1","9">> THEN ErrIncompatibleVersion
    ELSE IF variant # <<"a","r","g","o","n","2","i","d">> THEN ErrIncompatibleVariant
    ELSE NoErr

validateVariantAndVersion(variant, version) ==
    IF variant # <<"a","r","g","o","n","2","i","d">> THEN ErrIncompatibleVariant
    ELSE IF version # <<"v","=","1","9">> THEN ErrIncompatibleVersion
    ELSE NoErr

\* parseParam, one case of its switch: r is what strconv.ParseUint returned.
setParam(params, key, r) ==
    IF ~r.ok THEN [params |-> params, err |-> ErrInvalidHash]
    ELSE IF key = "m" THEN [params |-> [params EXCEPT !.Memory = r.value], err |-> NoErr]
    ELSE IF key = "t" THEN [params |-> [params EXCEPT !.Time = r.value], err |-> NoErr]
    ELSE [params |-> [params EXCEPT !.Threads = r.value[2]], err |-> NoErr]

\* Mutant of parseKeyValue: text after a second = is ignored.
parseKeyValue_lenient(params, keyValue) ==
    IF Len(keyValue) < 2 THEN [params |-> params, err |-> ErrInvalidHash]
    ELSE IF keyValue[1] = <<"m">> THEN setParam(params, "m", ParseUint(keyValue[2], 32))
    ELSE IF keyValue[1] = <<"t">> THEN setParam(params, "t", ParseUint(keyValue[2], 32))
    ELSE IF keyValue[1] = <<"p">> THEN setParam(params, "p", ParseUint(keyValue[2], 8))
    ELSE [params |-> params, err |-> ErrInvalidHash]

\* parseParam after keyValue := strings.Split(param, "=").
parseKeyValue(params, keyValue) ==
    IF Len(keyValue) # 2 THEN [params |-> params, err |-> ErrInvalidHash]
    ELSE IF keyValue[1] = <<"m">> THEN setParam(params, "m", ParseUint(keyValue[2], 32))
    ELSE IF keyValue[1] = <<"t">> THEN setParam(params, "t", ParseUint(keyValue[2], 32))
    ELSE IF keyValue[1] = <<"p">> THEN setParam(params, "p", ParseUint(keyValue[2], 8))
    ELSE [params |-> params, err |-> ErrInvalidHash]

\* params is the struct being filled in; err is NoErr on success.
parseParam(params, param) == parseKeyValue(params, Split(param, "="))

RECURSIVE parseParamLoop(_, _)
\* The loop of parseParams over the parts not parsed yet; r is what the last
\* parseParam returned.
parseParamLoop(r, paramParts) ==
    IF r.err # NoErr THEN [params |-> <<>>, err |-> r.err]
    ELSE IF paramParts = <<>> THEN [params |-> <<r.params>>, err |-> NoErr]
    ELSE parseParamLoop(parseParam(r.params, Head(paramParts)), Tail(paramParts))

\* parseParams after paramParts := strings.Split(paramString, ",").
parseParamParts(paramParts) ==
    IF Len(paramParts) # 3 THEN [params |-> <<>>, err |-> ErrInvalidHash]
    ELSE parseParamLoop([params |-> Params(<<0, 0>>, <<0, 0>>, 0, <<0, 0>>), err |-> NoErr],
                        paramParts)

parseParams(paramString) == parseParamParts(Split(paramString, ","))

decodeFail(err) == [params |-> <<>>, salt |-> <<>>, hash |-> <<>>, err |-> err]

\* Mutant of decodeFields: a salt longer than SaltLen is accepted.
decodeFields_saltAtLeast(pp, salt, hashBytes) ==
    IF pp.err # NoErr THEN decodeFail(pp.err)
    ELSE IF ~salt.ok THEN decodeFail(ErrInvalidHash)
    ELSE IF ~hashBytes.ok THEN decodeFail(ErrInvalidHash)
    ELSE IF Len(salt.bytes) < SaltLen THEN decodeFail(ErrInvalidHash)
    ELSE IF Len(hashBytes.bytes) = 0 THEN decodeFail(ErrInvalidHash)
    ELSE [params |-> <<[pp.params[1] EXCEPT !.KeyLen = U32(Len(hashBytes.bytes))]>>,
          salt |-> salt.bytes, hash |-> hashBytes.bytes, err |-> NoErr]

\* Mutant of decodeFields: KeyLen is taken from the salt.
decodeFields_keyLenFromSalt(pp, salt, hashBytes) ==
    IF pp.err # NoErr THEN decodeFail(pp.err)
    ELSE IF ~salt.ok THEN decodeFail(ErrInvalidHash)
    ELSE IF ~hashBytes.ok THEN decodeFail(ErrInvalidHash)
    ELSE IF Len(salt.bytes) # SaltLen THEN decodeFail(ErrInvalidHash)
    ELSE IF Len(hashBytes.bytes) = 0 THEN decodeFail(ErrInvalidHash)
    ELSE [params |-> <<[pp.params[1] EXCEPT !.KeyLen = U32(Len(salt.bytes))]>>,
          salt |-> salt.bytes, hash |-> hashBytes.bytes, err |-> NoErr]

\* Mutant of decodeFields: KeyLen is left as parseParams returned it.
decodeFields_noKeyLen(pp, salt, hashBytes) ==
    IF pp.err # NoErr THEN decodeFail(pp.err)
    ELSE IF ~salt.ok THEN decodeFail(ErrInvalidHash)
    ELSE IF ~hashBytes.ok THEN decodeFail(ErrInvalidHash)
    ELSE IF Len(salt.bytes) # SaltLen THEN decodeFail(ErrInvalidHash)
    ELSE IF Len(hashBytes.bytes) = 0 THEN decodeFail(ErrInvalidHash)
    ELSE [params |-> pp.params, salt |-> salt.bytes, hash |-> hashBytes.bytes, err |-> NoErr]

\* Mutant of decodeFields: the lengths of salt and digest are not checked.
decodeFields_noLengths(pp, salt, hashBytes) ==
    IF pp.err # NoErr THEN decodeFail(pp.err)
    ELSE IF ~salt.ok THEN decodeFail(ErrInvalidHash)
    ELSE IF ~hashBytes.ok THEN decodeFail(ErrInvalidHash)
    ELSE [params |-> <<[pp.params[1] EXCEPT !.KeyLen = U32(Len(hashBytes.bytes))]>>,
          salt |-> salt.bytes, hash |-> hashBytes.bytes, err |-> NoErr]

\* decodeHash from parseParams on: pp, salt and hashBytes are what parseParams
\* and the two DecodeString calls returned.
decodeFields(pp, salt, hashBytes) ==
    IF pp.err # NoErr THEN decodeFail(pp.err)
    ELSE IF ~salt.ok THEN decodeFail(ErrInvalidHash)
    ELSE IF ~hashBytes.ok THEN decodeFail(ErrInvalidHash)
    ELSE IF Len(salt.bytes) # SaltLen THEN decodeFail(ErrInvalidHash)
    ELSE IF Len(hashBytes.bytes) = 0 THEN decodeFail(ErrInvalidHash)
    ELSE [params |-> <<[pp.params[1] EXCEPT !.KeyLen = U32(Len(hashBytes.bytes))]>>,
          salt |-> salt.bytes, hash |-> hashBytes.bytes, err |-> NoErr]

\* Mutant of decodeParts: the parameters are parsed before the variant and
\* the version are checked.
decodeParts_paramsFirst(parts) ==
    IF Len(parts) # 6 THEN decodeFail(ErrInvalidHash)
    ELSE IF parseParams(parts[4]).err # NoErr THEN decodeFail(parseParams(parts[4]).err)
    ELSE IF validateVariantAndVersion(parts[2], parts[3]) # NoErr
    THEN decodeFail(validateVariantAndVersion(parts[2], parts[3]))
    ELSE decodeFields(parseParams(parts[4]), DecodeString(parts[5]), DecodeString(parts[6]))

\* Mutant of decodeParts: more than six segments are let through.
decodeParts_atLeastSix(parts) ==
    IF Len(parts) < 6 THEN decodeFail(ErrInvalidHash)
    ELSE IF validateVariantAndVersion(parts[2], parts[3]) # NoErr
    THEN decodeFail(validateVariantAndVersion(parts[2], parts[3]))
    ELSE decodeFields(parseParams(parts[4]), DecodeString(parts[5]), DecodeString(parts[6]))

\* decodeHash after parts := strings.Split(hash, "$").
decodeParts(parts) ==
    IF Len(parts) # 6 THEN decodeFail(ErrInvalidHash)
    ELSE IF validateVariantAndVersion(parts[2], parts[3]) # NoErr
    THEN decodeFail(validateVariantAndVersion(parts[2], parts[3]))
    ELSE decodeFields(parseParams(parts[4]), DecodeString(parts[5]), DecodeString(parts[6]))

\* Mutant of decodeHash: the segments are counted before the length is checked.
decodeHash_splitFirst(hash) ==
    IF Len(Split(hash, "$")) # 6 THEN decodeFail(ErrInvalidHash)
    ELSE IF Len(hash) < MinHashLength THEN decodeFail(ErrHashTooShort)
    ELSE decodeParts(Split(hash, "$"))

decodeHash(hash) ==
    IF Len(hash) < MinHashLength THEN decodeFail(ErrHashTooShort)
    ELSE decodeParts(Split(hash, "$"))

\* Mutant of encodeHash: the parameters are written in the order t, m, p.
encodeHash_tmp(p, encodedSalt, encodedHash) ==
    <<"$","a","r","g","o","n","2","i","d","$","v","=","1","9","$","t","=">> \o FormatUint(p.Time)
        \o <<",", "m", "=">> \o FormatUint(p.Memory)
        \o <<",", "p", "=">> \o FormatUint(<<0, p.Threads>>)
        \o <<"$">> \o encodedSalt \o <<"$">> \o encodedHash

\* The fmt.Sprintf of GenerateFromPassword.
encodeHash(p, encodedSalt, encodedHash) ==
    <<"$","a","r","g","o","n","2","i","d","$","v","=","1","9","$","m","=">> \o FormatUint(p.Memory)
        \o <<",", "t", "=">> \o FormatUint(p.Time)
        \o <<",", "p", "=">> \o FormatUint(<<0, p.Threads>>)
        \o <<"$">> \o encodedSalt \o <<"$">> \o encodedHash

\* GenerateFromPassword from the KDF call on: k is what argon2.IDKey did.
generateEncode(p, salt, k) ==
    IF k.panicked THEN Panic(<<KdfCall(p)>>)
    ELSE [NoResult EXCEPT
            !.hash = encodeHash(p, EncodeToString(salt), EncodeToString(k.key)),
            !.err = NoErr,
            !.salt = salt,
            !.digest = k.key,
            !.kdf = <<KdfCall(p)>>]

\* Mutant of generateWith: the lower bound of Memory is not checked.
generateWith_noMemoryFloor(password, p, rnd) ==
    IF Lt32(p.Time, U32(MinTime)) \/ p.Threads < MinThreads \/ Lt32(p.KeyLen, U32(MinKeyLen))
    THEN [NoResult EXCEPT !.err = ErrInvalidParameters]
    ELSE IF Gt32(p.Time, U32(MaxTime)) \/ Gt32(p.Memory, U32(MaxMemory))
            \/ Gt32(p.KeyLen, U32(MaxKeyLen))
    THEN [NoResult EXCEPT !.err = ErrParametersTooHigh]
    ELSE IF ~rnd.ok THEN [NoResult EXCEPT !.err = ErrRand]
    ELSE generateEncode(p, rnd.bytes,
                        IDKey(password, rnd.bytes, p.Time, p.Memory, p.Threads, p.KeyLen))

\* Mutant of generateWith: the upper bounds are checked before the lower ones.
generateWith_upperFirst(password, p, rnd) ==
    IF Gt32(p.Time, U32(MaxTime)) \/ Gt32(p.Memory, U32(MaxMemory))
       \/ Gt32(p.KeyLen, U32(MaxKeyLen))
    THEN [NoResult EXCEPT !.err = ErrParametersTooHigh]
    ELSE IF Lt32(p.Time, U32(MinTime)) \/ Lt32(p.Memory, U32(MinMemory))
            \/ p.Threads < MinThreads \/ Lt32(p.KeyLen, U32(MinKeyLen))
    THEN [NoResult EXCEPT !.err = ErrInvalidParameters]
    ELSE IF ~rnd.ok THEN [NoResult EXCEPT !.err = ErrRand]
    ELSE generateEncode(p, rnd.bytes,
                        IDKey(password, rnd.bytes, p.Time, p.Memory, p.Threads, p.KeyLen))

\* Mutant of generateWith: one salt is used for every hash.
generateWith_fixedSalt(password, p, rnd) ==
    IF Lt32(p.Time, U32(MinTime)) \/ Lt32(p.Memory, U32(MinMemory))
       \/ p.Threads < MinThreads \/ Lt32(p.KeyLen, U32(MinKeyLen))
    THEN [NoResult EXCEPT !.err = ErrInvalidParameters]
    ELSE IF Gt32(p.Time, U32(MaxTime)) \/ Gt32(p.Memory, U32(MaxMemory))
            \/ Gt32(p.KeyLen, U32(MaxKeyLen))
    THEN [NoResult EXCEPT !.err = ErrParametersTooHigh]
    ELSE IF ~rnd.ok THEN [NoResult EXCEPT !.err = ErrRand]
    ELSE generateEncode(p, [i \in 1..SaltLen |-> 0],
                        IDKey(password, [i \in 1..SaltLen |-> 0], p.Time, p.Memory,
                              p.Threads, p.KeyLen))

\* GenerateFromPassword once params is not nil; rnd is what rand.Read did:
\* [ok, bytes].
generateWith(password, p, rnd) ==
    IF Lt32(p.Time, U32(MinTime)) \/ Lt32(p.Memory, U32(MinMemory))
       \/ p.Threads < MinThreads \/ Lt32(p.KeyLen, U32(MinKeyLen))
    THEN [NoResult EXCEPT !.err = ErrInvalidParameters]
    ELSE IF Gt32(p.Time, U32(MaxTime)) \/ Gt32(p.Memory, U32(MaxMemory))
            \/ Gt32(p.KeyLen, U32(MaxKeyLen))
    THEN [NoResult EXCEPT !.err = ErrParametersTooHigh]
    ELSE IF ~rnd.ok THEN [NoResult EXCEPT !.err = ErrRand]
    ELSE generateEncode(p, rnd.bytes,
                        IDKey(password, rnd.bytes, p.Time, p.Memory, p.Threads, p.KeyLen))

GenerateFromPassword(password, params, rnd) ==
    generateWith(password, IF params = <<>> THEN DefaultParams[1] ELSE params[1], rnd)

ConstantTimeCompare(x, y) == IF x = y THEN 1 ELSE 0

\* Mutant of compareKey: a mismatch is reported as an invalid hash.
compareKey_invalidHash(d, k) ==
    IF k.panicked THEN Panic(<<KdfCall(d.params[1])>>)
    ELSE IF ConstantTimeCompare(d.hash, k.key) = 1
    THEN [NoResult EXCEPT !.err = NoErr, !.kdf = <<KdfCall(d.params[1])>>]
    ELSE [NoResult EXCEPT !.err = ErrInvalidHash, !.kdf = <<KdfCall(d.params[1])>>]

\* CompareHashAndPassword from the comparison on: k is what argon2.IDKey did.
compareKey(d, k) ==
    IF k.panicked THEN Panic(<<KdfCall(d.params[1])>>)
    ELSE IF ConstantTimeCompare(d.hash, k.key) = 1
    THEN [NoResult EXCEPT !.err = NoErr, !.kdf = <<KdfCall(d.params[1])>>]
    ELSE [NoResult EXCEPT !.err = ErrMismatch, !.kdf = <<KdfCall(d.params[1])>>]

\* Mutant of compareDecoded: the KDF is given the stored digest as the salt.
compareDecoded_wrongSalt(d, password) ==
    IF d.err # NoErr THEN [NoResult EXCEPT !.err = d.err]
    ELSE compareKey(d, IDKey(password, d.hash, d.params[1].Time, d.params[1].Memory,
                             d.params[1].Threads, d.params[1].KeyLen))

\* CompareHashAndPassword after decodeHash returned d.
compareDecoded(d, password) ==
    IF d.err # NoErr THEN [NoResult EXCEPT !.err = d.err]
    ELSE compareKey(d, IDKey(password, d.salt, d.params[1].Time, d.params[1].Memory,
                             d.params[1].Threads, d.params[1].KeyLen))

CompareHashAndPassword(hashed, password) == compareDecoded(decodeHash(hashed), password)

\* Mutant of extractDecoded: every decode error is reported as an invalid hash.
extractDecoded_invalidHash(d) ==
    IF d.err # NoErr THEN [NoResult EXCEPT !.err = ErrInvalidHash]
    ELSE [NoResult EXCEPT !.params = d.params, !.err = NoErr]

\* ExtractParams after decodeHash returned d.
extractDecoded(d) ==
    IF d.err # NoErr THEN [NoResult EXCEPT !.err = d.err]
    ELSE [NoResult EXCEPT !.params = d.params, !.err = NoErr]

ExtractParams(hashed) == extractDecoded(decodeHash(hashed))

\* Mutant of needsRehashExtracted: both fields must be lower.
needsRehashExtracted_and(e, newParams) ==
    IF e.panicked THEN e
    ELSE IF e.err # NoErr THEN [NoResult EXCEPT !.needs = FALSE, !.err = e.err]
    ELSE IF newParams = <<>> THEN Panic(<<>>)
    ELSE [NoResult EXCEPT
            !.needs = Lt32(e.params[1].Time, newParams[1].Time)
                      /\ Lt32(e.params[1].Memory, newParams[1].Memory),
            !.err = NoErr]

\* Mutant of needsRehashExtracted: equal values count as lower.
needsRehashExtracted_orEqual(e, newParams) ==
    IF e.panicked THEN e
    ELSE IF e.err # NoErr THEN [NoResult EXCEPT !.needs = FALSE, !.err = e.err]
    ELSE IF newParams = <<>> THEN Panic(<<>>)
    ELSE [NoResult EXCEPT
            !.needs = ~Gt32(e.params[1].Time, newParams[1].Time)
                      \/ ~Gt32(e.params[1].Memory, newParams[1].Memory),
            !.err = NoErr]

\* NeedsRehash after ExtractParams returned e; newParams is dereferenced
\* only when e carries no error, and dereferencing nil panics.
needsRehashExtracted(e, newParams) ==
    IF e.panicked THEN e
    ELSE IF e.err # NoErr THEN [NoResult EXCEPT !.needs = FALSE, !.err = e.err]
    ELSE IF newParams = <<>> THEN Panic(<<>>)
    ELSE [NoResult EXCEPT
            !.needs = Lt32(e.params[1].Time, newParams[1].Time)
                      \/ Lt32(e.params[1].Memory, newParams[1].Memory),
            !.err = NoErr]

NeedsRehash(hashed, newParams) == needsRehashExtracted(ExtractParams(hashed), newParams)

(***************************************************************************)
(* The inputs.  Passwords, Params values and salts come from small sets    *)
(* built around the package's limits; the hash strings a caller may hold   *)
(* without having generated them are a well-formed hash and strings that   *)
(* differ from it in up to MaxDeviations places.                           *)
(***************************************************************************)
MaxPasswordLen == 1

NumSalts == 2

MaxDeviations == 1

PasswordBytes == {36, 97}

Passwords == UNION {[1..n -> PasswordBytes] : n \in 0..MaxPasswordLen}

Times == {U32(MinTime - 1), U32(MinTime), U32(MaxTime), U32(MaxTime + 1), MaxUint32}

Memories ==
    {U32(MinMemory - 1), U32(MinMemory), U32(MaxMemory), U32(MaxMemory + 1), MaxUint32}

ThreadCounts == {MinThreads - 1, MinThreads, 255}

KeyLens ==
    {U32(MinKeyLen - 1), U32(MinKeyLen), U32(MaxKeyLen), U32(MaxKeyLen + 1), MaxUint32}

\* nil, DefaultParams() and every combination of the values around the limits.
ParamInputs ==
    {<<>>, DefaultParams} \cup {<<Params(t, m, p, k)>> : t \in Times, m \in Memories, p \in ThreadCounts, k \in KeyLens}

\* The newParams a caller passes to NeedsRehash.
Targets ==
    {<<>>, DefaultParams,
     <<Params(U32(1), U32(8), 1, U32(4))>>,
     <<Params(U32(6), U32(65536), 4, U32(32))>>,
     <<Params(U32(1), U32(131072), 1, U32(16))>>}

\* What rand.Read may do: fill the salt, or fail.
RandBytes(s) == [i \in 1..SaltLen |-> ((s - 1) * 255 + (s \div 3) * i * 37) % 256]

RandReads ==
    {[ok |-> TRUE, bytes |-> RandBytes(s)] : s \in 1..NumSalts} \cup {[ok |-> FALSE, bytes |-> <<>>]}

GoodVariant == <<"a","r","g","o","n","2","i","d">>
GoodVersion == <<"v","=","1","9">>
GoodParamSeg == <<"m","=","8",",","t","=","1",",","p","=","1">>
GoodSaltSeg == <<"A","A","A","A","A","A","A","A","A","A","A","A","A","A","A","A","A","A","A","A","A","A">>
GoodDigestSeg == <<"A","A","A","A","A","A">>

VariantSegs ==
    { <<"a","r","g","o","n","2","i">>,
      <<"a","r","g","o","n","2","d">> }

VersionSegs ==
    { <<"v","=","2","0">>,
      <<"v","=","1">> }

ParamSegs ==
    { <<"m","=","6","5","5","3","6",",","t","=","3",",","p","=","2">>,
      <<"m","=","0",",","t","=","1",",","p","=","1">>,
      <<"m","=","8",",","t","=","0",",","p","=","1">>,
      <<"m","=","8",",","t","=","1",",","p","=","0">>,
      <<"m","=","4","2","9","4","9","6","7","2","9","5",",","t","=","4","2","9","4","9","6","7","2","9","5",",","p","=","2","5","5">>,
      <<"m","=","4","2","9","4","9","6","7","2","9","6",",","t","=","1",",","p","=","1">>,
      <<"m","=","8",",","t","=","4","2","9","4","9","6","7","2","9","6",",","p","=","1">>,
      <<"m","=","8",",","t","=","1",",","p","=","2","5","6">>,
      <<"m","=","1","0","4","8","5","7","7",",","t","=","1","0","1",",","p","=","1">>,
      <<"t","=","1",",","m","=","8",",","p","=","1">>,
      <<"m","=","1",",","m","=","2",",","m","=","3">>,
      <<"m","=","8",",","t","=","1">>,
      <<"m","=","8",",","t","=","1",",","p","=","1",",","p","=","1">>,
      <<"m","=","0","8",",","t","=","1",",","p","=","1">>,
      <<"m","=",",","t","=","1",",","p","=","1">>,
      <<"m","=","-","8",",","t","=","1",",","p","=","1">>,
      <<"m","=","+","8",",","t","=","1",",","p","=","1">>,
      <<"m","=","8","=","8",",","t","=","1",",","p","=","1">>,
      <<"m","8",",","t","=","1",",","p","=","1">>,
      <<"k","=","8",",","t","=","1",",","p","=","1">>,
      <<"m","=","x",",","t","=","1",",","p","=","1">> }

SaltSegs ==
    { <<"A","A","A","A","A","A","A","A","A","A","A","A","A","A","A","A","A","A","A","A">>,
      <<"A","A","A","A","A","A","A","A","A","A","A","A","A","A","A","A","A","A","A","A","A","A","A">>,
      <<"A","A","A","A","A","A","A","A","A","A","A","A","A","A","A","A","A","A","A","A","A">>,
      <<"A","A","A","A","A","A","A","A","A","A","A","A","A","A","A","A","A","A","A","A","A","=">>,
      <<"A","A","A","A","A","A","A","A","A","A","A","A","A","A","A","A","A","A","A","A","A","-">>,
      <<"A","A","A","A","A","A","A","A","A","A","A","\n","A","A","A","A","A","A","A","A","A","A","A">>,
      <<"A","A","A","A","A","A","A","A","A","A","A","A","A","A","A","A","A","A","A","A","A","B">> }

DigestSegs ==
    { <<>>,
      <<"A","A">>,
      <<"A","A","A","A","A">>,
      <<"A","A","A","A","A","B">>,
      <<"A","A","A","A","A","A","=">>,
      <<"A","A","A","\n","A","A","A">>,
      <<"A","A","A","A","A","A","A","A","A","A","A">> }

Prefixes ==
    { <<"x">> }

Deviations(v, good) == IF v = good THEN 0 ELSE 1

HashString(prefix, variant, version, paramSeg, saltSeg, digestSeg) ==
    prefix \o <<"$">> \o variant \o <<"$">> \o version \o <<"$">> \o paramSeg
           \o <<"$">> \o saltSeg \o <<"$">> \o digestSeg

\* Strings that fail several of decodeHash's checks at once.
MultiFault ==
    { <<"$","a","r","g","o","n","2","i","$","v","=","2","0","$","m","=","8",",","t","=","1",",","p","=","1","$","A","$","A">>,
      <<"x","$","a","r","g","o","n","2","i","d","$","v","=","1","9","$","m","=","8",",","t","=","1","$","A","A","$","A","A">>,
      <<"$","a","r","g","o","n","2","i","$","v","=","2","0","$","m","=","x",",","t","=","1",",","p","=","1","$","A","A","A","A","A","A","A","A","A","A","A","A","A","A","A","A","A","A","A","A","A","A","$","A","A","A","A","A","A">>,
      <<"$","a","r","g","o","n","2","i","d","$","v","=","2","0","$","m","=","x",",","t","=","1",",","p","=","1","$","A","A","A","A","A","A","A","A","A","A","A","A","A","A","A","A","A","A","A","A","$","A","A","A","A","A","A">>,
      <<"$","a","r","g","o","n","2","i","d","$","v","=","1","9","$","m","=","x",",","t","=","1",",","p","=","1","$","A","A","A","A","A","A","A","A","A","A","A","A","A","A","A","A","A","A","A","A","$">>,
      <<"$","a","r","g","o","n","2","i","$","v","=","2","0","$","m","=","6","5","5","3","6",",","t","=","4",",","p","=","1","$","K","7","E","Z","E","Y","A","q","/","f","j","T","Q","6","z","2","K","R","E","s","3","Q">> }

\* Strings around the length check: the shortest string the other checks let
\* through, and a string of fewer than MinHashLength characters that fails
\* only the checks of the salt and the digest.
Borderline ==
    { <<"$","a","r","g","o","n","2","i","d","$","v","=","1","9","$","m","=","0",",","t","=","0",",","p","=","0","$","A","A","A","A","A","A","A","A","A","A","A","A","A","A","A","A","A","A","A","A","A","A","$","A","A">>,
      <<"$","a","r","g","o","n","2","i","d","$","v","=","1","9","$","m","=","8",",","t","=","1",",","p","=","1","$","$">> }

Corpus ==
    { HashString(x, va, ve, pa, sa, di) :
        <<x, va, ve, pa, sa, di>> \in
            { c \in (Prefixes \cup {<<>>}) \X (VariantSegs \cup {GoodVariant})
                    \X (VersionSegs \cup {GoodVersion}) \X (ParamSegs \cup {GoodParamSeg})
                    \X (SaltSegs \cup {GoodSaltSeg}) \X (DigestSegs \cup {GoodDigestSeg}) :
                Deviations(c[1], <<>>) + Deviations(c[2], GoodVariant)
                + Deviations(c[3], GoodVersion) + Deviations(c[4], GoodParamSeg)
                + Deviations(c[5], GoodSaltSeg) + Deviations(c[6], GoodDigestSeg)
                    <= MaxDeviations } }
    \cup MultiFault
    \cup Borderline
    \cup { <<"s","h","o","r","t">>,
           <<"$","a","r","g","o","n","2","i","d","$","v","=","1","9","$","m","=","6","5","5","3","6">>,
           <<"$","a","r","g","o","n","2","i","d","$","v","=","2","0","$","m","=","6","5","5","3","6",",","t","=","4",",","p","=","1","$","K","7","E","Z","E","Y","A","q","/","f","j","T","Q","6","z","2","K","R","E","s","3","Q">>,
           <<"$","a","r","g","o","n","2","i","d","$","v","=","1","9","$","m","=","8",",","t","=","1",",","p","=","1","$","A","A","A","A","A","A","A","A","A","A","A","A","A","A","A","A","A","A","A","A","A","A","$","A","A","A","A","A","A","$">>,
           <<"$","a","r","g","o","n","2","i","d","$","v","=","1","9","$","m","=","8",",","t","=","1",",","p","=","1","$","A","A","A","A","A","A","A","A","A","A","A","A","A","A","A","A","A","A","A","A","A","A","A","A","A","A","A","A">> }

(***************************************************************************)
(* The store of the migration example (examples/migration).  It holds one  *)
(* user; NumLogins Login calls run concurrently.  A Go string is two       *)
(* words, a pointer to the bytes and a length: the Password field is the   *)
(* record [ptr, len], where ptr stands for the bytes it points to.  An     *)
(* assignment to the field stores the two words one after the other, in    *)
(* either order; a read that does not hold the mutex sees the words as     *)
(* they are at that moment, and the bytes beyond the end of ptr are        *)
(* whatever lies there.                                                    *)
(***************************************************************************)
NumLogins == 2

Logins == 1..NumLogins

IdleLogin ==
    [pc |-> "idle", password |-> <<>>, newHash |-> <<>>, result |-> "none",
     kind |-> "none", skipped |-> FALSE, generated |-> "none"]

\* NewMigrationUserStore(), before any Login call.
NewMigrationUserStore ==
    /\ mu = 0
    /\ users = <<>>
    /\ login = [p \in Logins |-> IdleLogin]
    /\ created = <<>>
    /\ writes = [migrate |-> 0, upgrade |-> 0]

(***************************************************************************)
(* The state machine.  The package keeps no state of its own: the state is *)
(* a caller's, who is configured with a *Params value (policy), holds at   *)
(* most one hash string (hashedPassword) and calls the exported functions  *)
(* on them: it generates a hash when it holds none, and verifies and       *)
(* inspects the hash it holds.  op, args, ret and kdfLog describe the call *)
(* made last.                                                              *)
(***************************************************************************)
NoArgs == [password |-> <<>>, newParams |-> <<>>]

Init ==
    /\ op = "init"
    /\ args = NoArgs
    /\ ret = NoResult
    /\ kdfLog = <<>>
    /\ gen = <<>>
    /\ \/ hashedPassword = <<>> /\ policy \in ParamInputs
       \/ hashedPassword \in Corpus /\ policy = <<>>
    /\ NewMigrationUserStore

\* The caller's record of a call that returned (or panicked with) r.
Called(name, a, r) ==
    /\ op' = name
    /\ args' = a
    /\ ret' = [r EXCEPT !.kdf = <<>>]
    /\ kdfLog' = r.kdf
    /\ UNCHANGED storeVars

\* The caller keeps the hash GenerateFromPassword returned (nil on error).
Keep(password, r) ==
    /\ hashedPassword' = r.hash
    /\ gen' = IF r.err = NoErr /\ ~r.panicked
              THEN <<[password |-> password,
                      params |-> IF policy = <<>> THEN DefaultParams[1] ELSE policy[1],
                      salt |-> r.salt, digest |-> r.digest, hash |-> r.hash,
                      why |-> "new"]>>
              ELSE <<>>
    /\ Called("GenerateFromPassword", [NoArgs EXCEPT !.password = password],
              [r EXCEPT !.salt = <<>>, !.digest = <<>>])

\* hash, err := GenerateFromPassword(password, policy)
Generate(password, rnd) ==
    /\ hashedPassword = <<>>
    /\ Keep(password, GenerateFromPassword(password, policy, rnd))
    /\ UNCHANGED policy

\* err := CompareHashAndPassword(hashedPassword, password)
Compare(password) ==
    /\ Called("CompareHashAndPassword", [NoArgs EXCEPT !.password = password],
              CompareHashAndPassword(hashedPassword, password))
    /\ UNCHANGED <<hashedPassword, gen, policy>>

\* p, err := ExtractParams(hashedPassword)
Extract ==
    /\ Called("ExtractParams", NoArgs, ExtractParams(hashedPassword))
    /\ UNCHANGED <<hashedPassword, gen, policy>>

\* needs, err := NeedsRehash(hashedPassword, newParams)
Rehash(newParams) ==
    /\ Called("NeedsRehash", [NoArgs EXCEPT !.newParams = newParams],
              NeedsRehash(hashedPassword, newParams))
    /\ UNCHANGED <<hashedPassword, gen, policy>>

\* The decodeHash result, as the caller's record holds it.
Decoded(d) ==
    [NoResult EXCEPT !.params = d.params, !.salt = d.salt, !.digest = d.hash, !.err = d.err]

\* params, salt, hash, err := decodeHash(hashedPassword)
Decode ==
    /\ Called("decodeHash", NoArgs, Decoded(decodeHash(hashedPassword)))
    /\ UNCHANGED <<hashedPassword, gen, policy>>

Next ==
    \/ \E password \in Passwords, rnd \in RandReads : Generate(password, rnd)
    \/ \E password \in Passwords : Compare(password)
    \/ Extract
    \/ \E newParams \in Targets \cup {policy} : Rehash(newParams)
    \/ Decode

Spec == Init /\ [][Next]_vars

(***************************************************************************)
(* A caller that renews the hash it holds: it hashes the same password    *)
(* again with the same Params, and it replaces the hash when NeedsRehash   *)
(* said so (the usage the documentation of NeedsRehash describes).  gen    *)
(* keeps every hash generated, the newest first.  crypto/rand never        *)
(* returns the same 16 bytes twice: rand.Read draws a salt not drawn       *)
(* before.                                                                 *)
(***************************************************************************)
Policies ==
    {<<>>,
     <<Params(U32(MinTime), U32(MinMemory), MinThreads, U32(MinKeyLen))>>,
     <<Params(U32(6), U32(65536), 4, U32(32))>>,
     <<Params(U32(MaxTime), U32(MaxMemory), 255, U32(MinKeyLen))>>}

\* The empty password and a one-byte password.
RenewPasswords == {<<>>, <<97>>}

RenewInit ==
    /\ op = "init"
    /\ args = NoArgs
    /\ ret = NoResult
    /\ kdfLog = <<>>
    /\ gen = <<>>
    /\ hashedPassword = <<>>
    /\ policy \in Policies
    /\ NewMigrationUserStore

Fresh(rnd) == \A i \in 1..Len(gen) : rnd.bytes # gen[i].salt

\* The caller replaces the hash it holds by the one GenerateFromPassword
\* returned, and keeps the old one when the call failed.
Replace(p, why, r) ==
    /\ hashedPassword' = IF r.err = NoErr THEN r.hash ELSE hashedPassword
    /\ gen' = IF r.err = NoErr
              THEN <<[password |-> gen[1].password, params |-> p[1], salt |-> r.salt,
                      digest |-> r.digest, hash |-> r.hash, why |-> why]>> \o gen
              ELSE gen
    /\ policy' = p
    /\ Called("GenerateFromPassword", [NoArgs EXCEPT !.password = gen[1].password],
              [r EXCEPT !.salt = <<>>, !.digest = <<>>])

\* hash, err := GenerateFromPassword(password, params), a second time with
\* the password and the Params of the hash held.
GenerateAgain(rnd) ==
    /\ gen # <<>>
    /\ Fresh(rnd)
    /\ Replace(<<gen[1].params>>, "again",
               GenerateFromPassword(gen[1].password, <<gen[1].params>>, rnd))

\* if needs, _ := NeedsRehash(hash, target); needs {
\*     hash, err = GenerateFromPassword(password, target) }
Upgrade(rnd) ==
    /\ gen # <<>>
    /\ op = "NeedsRehash"
    /\ ~ret.panicked
    /\ ret.err = NoErr
    /\ ret.needs
    /\ Fresh(rnd)
    /\ Replace(args.newParams, "upgrade",
               GenerateFromPassword(gen[1].password, args.newParams, rnd))

RenewNext ==
    \/ \E password \in RenewPasswords, rnd \in RandReads : Generate(password, rnd)
    \/ \E rnd \in RandReads : GenerateAgain(rnd)
    \/ \E password \in RenewPasswords : Compare(password)
    \/ \E newParams \in Targets \cup {policy} : Rehash(newParams)
    \/ \E rnd \in RandReads : Upgrade(rnd)

RenewSpec == RenewInit /\ [][RenewNext]_vars

(***************************************************************************)
(* golang.org/x/crypto/bcrypt, as the example uses it.  The digest is a    *)
(* stand-in that depends on the salt and on the key bcrypt derives from    *)
(* the password: the password followed by a zero byte, repeated to         *)
(* BcryptMaxLen bytes.  GenerateFromPassword refuses a longer password;    *)
(* CompareHashAndPassword does not look at the length.                     *)
(***************************************************************************)
BcryptMaxLen == 72

BcryptPrefix == <<"$","2","a","$","1","0","$">>

BcryptSalt == <<"N","9","q","o","8","u","L","O","i","c","k","g","x","2","Z","M","R","Z","o","M","y","e">>

BcryptKey(password) ==
    SubSeq([i \in 1..BcryptMaxLen |-> (password \o <<0>>)[((i - 1) % (Len(password) + 1)) + 1]],
           1, BcryptMaxLen)

BcryptDigest(password, salt) ==
    [i \in 1..31 |->
        encodeStd[((Absorb(Absorb(11, BcryptKey(password)),
                           [k \in 1..Len(salt) |-> decodeMap(salt[k])]) * i + i * i) % 64) + 1]]

\* bcrypt.GenerateFromPassword(password, bcrypt.DefaultCost): [ok, hash].
bcryptGenerateFromPassword(password) ==
    IF Len(password) > BcryptMaxLen THEN [ok |-> FALSE, hash |-> <<>>]
    ELSE [ok |-> TRUE, hash |-> BcryptPrefix \o BcryptSalt \o BcryptDigest(password, BcryptSalt)]

\* bcrypt.CompareHashAndPassword(hash, password) returned nil.
bcryptCompareHashAndPassword(hash, password) ==
    /\ Len(hash) >= 59
    /\ SubSeq(hash, 1, 7) = BcryptPrefix
    /\ \A k \in 8..29 : IsStd(hash[k])
    /\ SubSeq(hash, 30, Len(hash)) = BcryptDigest(password, SubSeq(hash, 8, 29))

HasPrefix(s, prefix) == Len(s) >= Len(prefix) /\ SubSeq(s, 1, Len(prefix)) = prefix

isBcryptHash(hash) ==
    \/ HasPrefix(hash, <<"$","2","a","$">>)
    \/ HasPrefix(hash, <<"$","2","b","$">>)
    \/ HasPrefix(hash, <<"$","2","y","$">>)

\* strongerParams of checkAndUpgradeHash.
strongerParams == <<Params(U32(6), U32(131072), 4, U32(32))>>

\* The Password field holding the string s.
Field(s) == [ptr |-> s, len |-> Len(s)]

\* What may lie beyond the end of a string's bytes.
Garbage == {"A", "?"}

\* The string a read of the field f yields.
Value(f, g) ==
    IF f.len <= Len(f.ptr) THEN SubSeq(f.ptr, 1, f.len)
    ELSE f.ptr \o [i \in 1..(f.len - Len(f.ptr)) |-> g]

\* The field f after the first of the two stores of user.Password = s.
FirstStore(f, s) == {[ptr |-> s, len |-> f.len], [ptr |-> f.ptr, len |-> Len(s)]}

\* The passwords users are created with: a short one and one of
\* BcryptMaxLen bytes; the passwords tried at Login add a longer one.
ShortPassword == <<97>>

LongPassword == SubSeq([i \in 1..BcryptMaxLen |-> 97], 1, BcryptMaxLen)

CreatePasswords == {ShortPassword, LongPassword}

LoginPasswords == {ShortPassword, LongPassword, LongPassword \o <<36>>}

\* What rand.Read may do in the GenerateFromPassword call of Login p, and
\* in the one of CreateUserWithArgon2id.
LoginRand(p) ==
    {[ok |-> TRUE, bytes |-> RandBytes(p + 1)], [ok |-> FALSE, bytes |-> <<>>]}

CreateRand == [ok |-> TRUE, bytes |-> RandBytes(1)]

MigrationInit ==
    /\ op = "init"
    /\ args = NoArgs
    /\ ret = NoResult
    /\ kdfLog = <<>>
    /\ gen = <<>>
    /\ hashedPassword = <<>>
    /\ policy = <<>>
    /\ NewMigrationUserStore

\* CreateUserWithBcrypt(email, password); when the user exists or bcrypt
\* fails it returns an error and changes nothing.
CreateUserWithBcrypt(password) ==
    /\ mu = 0
    /\ users = <<>>
    /\ bcryptGenerateFromPassword(password).ok
    /\ users' = <<Field(bcryptGenerateFromPassword(password).hash)>>
    /\ created' = <<[password |-> password, kind |-> "bcrypt"]>>
    /\ UNCHANGED <<mu, login, writes>>
    /\ UNCHANGED libVars

\* CreateUserWithArgon2id(email, password).
CreateUserWithArgon2id(password) ==
    /\ mu = 0
    /\ users = <<>>
    /\ users' = <<Field(GenerateFromPassword(password, <<>>, CreateRand).hash)>>
    /\ created' = <<[password |-> password, kind |-> "argon2id"]>>
    /\ UNCHANGED <<mu, login, writes>>
    /\ UNCHANGED libVars

\* Login p moves on to position pc.
Goto(p, pc) == login' = [login EXCEPT ![p].pc = pc]

\* Login p returns result.
Return(p, result) == login' = [login EXCEPT ![p].pc = "done", ![p].result = result]

\* Login, lines 92-99: the lookup under the read lock. The calls are
\* interchangeable, so they are numbered in the order they begin.
LoginLookup(p, password) ==
    /\ login[p].pc = "idle"
    /\ \A q \in Logins : q < p => login[q].pc # "idle"
    /\ mu = 0
    /\ login' = IF users = <<>>
                THEN [login EXCEPT ![p].pc = "done", ![p].password = password,
                                   ![p].result = "user not found"]
                ELSE [login EXCEPT ![p].pc = "verify", ![p].password = password]
    /\ UNCHANGED <<mu, users, created, writes>>
    /\ UNCHANGED libVars

\* migrateUserToArgon2id, lines 135-138: r is what GenerateFromPassword did.
migrateGenerated(p, r) ==
    IF r.err # NoErr
    THEN login' = [login EXCEPT ![p].pc = "done", ![p].result = "failed to migrate hash",
                                ![p].kind = "bcrypt", ![p].generated = "failed"]
    ELSE login' = [login EXCEPT ![p].pc = "migrate", ![p].newHash = r.hash,
                                ![p].kind = "bcrypt", ![p].generated = "ok"]

\* Login, lines 119-128: r is what argon2id.CompareHashAndPassword did.
loginCompared(p, r) ==
    IF r.panicked THEN Goto(p, "panicked")
    ELSE IF r.err # NoErr THEN Return(p, "invalid credentials")
    ELSE login' = [login EXCEPT ![p].pc = "check", ![p].kind = "argon2id"]

\* Login, lines 101-129, with hash as line 101 read it.
loginVerify(p, hash, rnd) ==
    IF isBcryptHash(hash)
    THEN IF ~bcryptCompareHashAndPassword(hash, login[p].password)
         THEN Return(p, "invalid credentials")
         ELSE migrateGenerated(p, GenerateFromPassword(login[p].password, <<>>, rnd))
    ELSE loginCompared(p, CompareHashAndPassword(hash, login[p].password))

\* hash := user.Password (line 101, no lock held) and the verification.
LoginVerify(p, g, rnd) ==
    /\ login[p].pc = "verify"
    /\ loginVerify(p, Value(users[1], g), rnd)
    /\ UNCHANGED <<mu, users, created, writes>>
    /\ UNCHANGED libVars

\* checkAndUpgradeHash, lines 167-183: n is what NeedsRehash did, r what
\* GenerateFromPassword does when it is called.
upgradeChecked(p, n, r) ==
    IF n.panicked THEN Goto(p, "panicked")
    ELSE IF n.err # NoErr \/ ~n.needs THEN Return(p, "ok")
    ELSE IF r.err # NoErr
    THEN login' = [login EXCEPT ![p].pc = "done", ![p].result = "ok",
                                ![p].generated = "failed"]
    ELSE login' = [login EXCEPT ![p].pc = "upgrade", ![p].newHash = r.hash,
                                ![p].generated = "ok"]

\* NeedsRehash([]byte(user.Password), strongerParams) (line 167, no lock
\* held) and the new hash.
UpgradeCheck(p, g, rnd) ==
    /\ login[p].pc = "check"
    /\ upgradeChecked(p, NeedsRehash(Value(users[1], g), strongerParams),
                      GenerateFromPassword(login[p].password, strongerParams, rnd))
    /\ UNCHANGED <<mu, users, created, writes>>
    /\ UNCHANGED libVars

\* Login p finds the work done and returns without storing.
Skip(p) ==
    /\ login' = [login EXCEPT ![p].pc = "done", ![p].result = "ok", ![p].skipped = TRUE]
    /\ UNCHANGED <<mu, users, writes>>

\* Login p, holding the lock, stores the first word of user.Password.
StoreFirst(p, pc, count) ==
    /\ \E f \in FirstStore(users[1], login[p].newHash) : users' = <<f>>
    /\ mu' = p
    /\ writes' = count
    /\ Goto(p, pc)

\* Login p stores the second word, unlocks and returns.
StoreSecond(p) ==
    /\ users' = <<Field(login[p].newHash)>>
    /\ mu' = 0
    /\ Return(p, "ok")
    /\ UNCHANGED writes

\* Mutant of migrateLocked: the hash is stored without the second look.
migrateLocked_noRecheck(p, current) ==
    StoreFirst(p, "migrating", [writes EXCEPT !.migrate = @ + 1])

\* migrateUserToArgon2id, lines 145-150, with current = user.Password as
\* read under the lock.
migrateLocked(p, current) ==
    IF ~isBcryptHash(current) THEN Skip(p)
    ELSE StoreFirst(p, "migrating", [writes EXCEPT !.migrate = @ + 1])

\* migrateUserToArgon2id, lines 141-150.
MigrateLocked(p) ==
    /\ login[p].pc = "migrate"
    /\ mu = 0
    /\ migrateLocked(p, Value(users[1], "?"))
    /\ UNCHANGED created
    /\ UNCHANGED libVars

\* migrateUserToArgon2id, lines 150-153.
MigrateStored(p) ==
    /\ login[p].pc = "migrating"
    /\ StoreSecond(p)
    /\ UNCHANGED created
    /\ UNCHANGED libVars

\* Mutant of upgradeLocked: the second look is inverted.
upgradeLocked_inverted(p, n) ==
    IF n.panicked THEN Goto(p, "panicked") /\ UNCHANGED <<mu, users, writes>>
    ELSE IF n.err # NoErr \/ n.needs THEN Skip(p)
    ELSE StoreFirst(p, "upgrading", [writes EXCEPT !.upgrade = @ + 1])

\* checkAndUpgradeHash, lines 190-196: n is what NeedsRehash did under the lock.
upgradeLocked(p, n) ==
    IF n.panicked THEN Goto(p, "panicked") /\ UNCHANGED <<mu, users, writes>>
    ELSE IF n.err # NoErr \/ ~n.needs THEN Skip(p)
    ELSE StoreFirst(p, "upgrading", [writes EXCEPT !.upgrade = @ + 1])

\* checkAndUpgradeHash, lines 186-196.
UpgradeLocked(p) ==
    /\ login[p].pc = "upgrade"
    /\ mu = 0
    /\ upgradeLocked(p, NeedsRehash(Value(users[1], "?"), strongerParams))
    /\ UNCHANGED created
    /\ UNCHANGED libVars

\* checkAndUpgradeHash, lines 196-201.
UpgradeStored(p) ==
    /\ login[p].pc = "upgrading"
    /\ StoreSecond(p)
    /\ UNCHANGED created
    /\ UNCHANGED libVars

MigrationNext ==
    \/ \E password \in CreatePasswords : CreateUserWithBcrypt(password)
    \/ \E password \in CreatePasswords : CreateUserWithArgon2id(password)
    \/ \E p \in Logins, password \in LoginPasswords : LoginLookup(p, password)
    \/ \E p \in Logins : \E g \in Garbage, rnd \in LoginRand(p) : LoginVerify(p, g, rnd)
    \/ \E p \in Logins : \E g \in Garbage, rnd \in LoginRand(p) : UpgradeCheck(p, g, rnd)
    \/ \E p \in Logins : MigrateLocked(p)
    \/ \E p \in Logins : MigrateStored(p)
    \/ \E p \in Logins : UpgradeLocked(p)
    \/ \E p \in Logins : UpgradeStored(p)

MigrationSpec == MigrationInit /\ [][MigrationNext]_vars

(***************************************************************************)
(* Properties.                                                             *)
(***************************************************************************)
Between32(v, lo, hi) == ~Lt32(v, U32(lo)) /\ ~Gt32(v, U32(hi))

\* The bounds of the validation, as the documentation states them.
WithinBounds(p) ==
    /\ Between32(p.Time, 1, 100)
    /\ Between32(p.Memory, 8, 1048576)
    /\ p.Threads >= 1
    /\ Between32(p.KeyLen, 4, 128)

\* The Params a GenerateFromPassword call of this caller works with.
Effective == IF policy = <<>> THEN Params(U32(3), U32(65536), 2, U32(32)) ELSE policy[1]

DecodeErrors ==
    {ErrHashTooShort, ErrInvalidHash, ErrIncompatibleVariant, ErrIncompatibleVersion}

\* ds is the decimal numeral of the uint32 v, without leading zeros.
IsDecimalOf(ds, v) ==
    /\ ParseUint(ds, 32).ok
    /\ ParseUint(ds, 32).value = v
    /\ (Len(ds) = 1 \/ ds[1] # "0")

\* s is the unpadded standard base64 text of the n bytes bs.
IsRawBase64Of(s, bs, n) ==
    /\ Len(bs) = n
    /\ Len(s) = (4 * n + 2) \div 3
    /\ \A i \in 1..Len(s) : IsStd(s[i])
    /\ DecodeString(s).bytes = bs

\* C1: decoding the string GenerateFromPassword produced succeeds and
\* returns the Params, the salt and the digest it was built from.
C1_RoundTrip ==
    (op = "decodeHash" /\ gen # <<>>) =>
        /\ ret.err = NoErr
        /\ ret.params = <<gen[1].params>>
        /\ ret.salt = gen[1].salt
        /\ ret.digest = gen[1].digest

C1_Witness ==
    /\ op = "decodeHash"
    /\ gen # <<>>
    /\ gen[1].params = Params(U32(100), U32(1048576), 255, U32(128))
    /\ Len(gen[1].salt) = 16
    /\ Len(gen[1].digest) = 128
    /\ ret.err = NoErr

\* C2: CompareHashAndPassword on a hash GenerateFromPassword produced and
\* the password it was produced from returns nil.
C2_RightPassword ==
    (op = "CompareHashAndPassword" /\ gen # <<>> /\ args.password = gen[1].password) =>
        (~ret.panicked /\ ret.err = NoErr)

C2_Witness ==
    /\ op = "CompareHashAndPassword"
    /\ gen # <<>>
    /\ args.password = <<>>
    /\ gen[1].password = <<>>
    /\ gen[1].params = Params(U32(1), U32(8), 1, U32(4))
    /\ ret.err = NoErr

\* The digest the KDF returns in CompareHashAndPassword when the hash it is
\* given decoded to d.
CandidateKey(d) ==
    IDKey(args.password, d.salt, d.params[1].Time, d.params[1].Memory, d.params[1].Threads,
          d.params[1].KeyLen)

\* d decoded and the KDF returned a digest other than the stored one.
WrongPassword(d) ==
    d.err = NoErr /\ ~CandidateKey(d).panicked /\ CandidateKey(d).key # d.hash

\* C3: when the hash decodes and the KDF's digest for the candidate password
\* differs from the stored digest, CompareHashAndPassword returns the
\* mismatch error, which is not nil and none of the decode errors; and a
\* hash that decodes never makes it return a decode error.
C3_MismatchDistinct ==
    op = "CompareHashAndPassword" =>
        /\ decodeHash(hashedPassword).err = NoErr => ret.err \notin DecodeErrors
        /\ WrongPassword(decodeHash(hashedPassword)) =>
              (~ret.panicked /\ ret.err = ErrMismatch
               /\ ErrMismatch # NoErr /\ ErrMismatch \notin DecodeErrors)

C3_Witness ==
    /\ op = "CompareHashAndPassword"
    /\ gen # <<>>
    /\ args.password # gen[1].password
    /\ WrongPassword(decodeHash(hashedPassword))
    /\ ret.err = ErrMismatch

\* C4: every Params handed to the KDF by GenerateFromPassword or
\* CompareHashAndPassword, and every Params a successful decode returns, is
\* within the bounds of the validation.
C4_ParamsWithinBounds ==
    /\ \A i \in 1..Len(kdfLog) : WithinBounds(kdfLog[i])
    /\ (op \in {"ExtractParams", "decodeHash"} /\ ret.err = NoErr) => WithinBounds(ret.params[1])

\* C5: CompareHashAndPassword returns nil or an error for every input; it
\* never panics.
C5_CompareNeverPanics == op = "CompareHashAndPassword" => ~ret.panicked

TooWeak(p) ==
    Lt32(p.Time, U32(1)) \/ Lt32(p.Memory, U32(8)) \/ p.Threads < 1 \/ Lt32(p.KeyLen, U32(4))

TooStrong(p) ==
    Gt32(p.Time, U32(100)) \/ Gt32(p.Memory, U32(1048576)) \/ Gt32(p.KeyLen, U32(128))

IsParamSegmentOf(seg, p) ==
    LET items == Split(seg, ",")
    IN  /\ Len(items) = 3
        /\ \A i \in 1..3 : Len(items[i]) >= 3 /\ items[i][2] = "="
        /\ items[1][1] = "m" /\ IsDecimalOf(SubSeq(items[1], 3, Len(items[1])), p.Memory)
        /\ items[2][1] = "t" /\ IsDecimalOf(SubSeq(items[2], 3, Len(items[2])), p.Time)
        /\ items[3][1] = "p" /\ IsDecimalOf(SubSeq(items[3], 3, Len(items[3])), <<0, p.Threads>>)

\* C8: a string GenerateFromPassword returns splits on $ into six segments:
\* an empty one, argon2id, v=19, m=..,t=..,p=.. of the Params in decimal,
\* and the salt and the digest in unpadded standard base64.
C8_CanonicalFormat ==
    (op = "GenerateFromPassword" /\ ret.err = NoErr) =>
        LET parts == Split(ret.hash, "$")
        IN  /\ Len(parts) = 6
            /\ parts[1] = <<>>
            /\ parts[2] = <<"a","r","g","o","n","2","i","d">>
            /\ parts[3] = <<"v","=","1","9">>
            /\ IsParamSegmentOf(parts[4], Effective)
            /\ gen # <<>>
            /\ IsRawBase64Of(parts[5], gen[1].salt, 16)
            /\ IsRawBase64Of(parts[6], gen[1].digest, ToInt(Effective.KeyLen))

C8_Witness ==
    /\ op = "GenerateFromPassword"
    /\ ret.err = NoErr
    /\ policy = <<Params(U32(100), U32(1048576), 255, U32(4))>>
    /\ Len(Split(ret.hash, "$")) = 6

\* C9: with nil Params GenerateFromPassword hashes with time 3, memory
\* 65536, parallelism 2 and key length 32, so the result carries
\* m=65536,t=3,p=2, a 22-character salt and a 43-character digest, and is
\* what an explicit DefaultParams() gives for the same salt.
C9_Defaults ==
    (op = "GenerateFromPassword" /\ policy = <<>>) =>
        \/ ret.err = ErrRand
        \/ /\ ret.err = NoErr
           /\ kdfLog = <<[Time |-> <<0, 3>>, Memory |-> <<1, 0>>, Threads |-> 2,
                          KeyLen |-> <<0, 32>>]>>
           /\ Len(gen[1].salt) = 16
           /\ Split(ret.hash, "$")[4] = <<"m","=","6","5","5","3","6",",","t","=","3",",","p","=","2">>
           /\ Len(Split(ret.hash, "$")[5]) = 22
           /\ Len(Split(ret.hash, "$")[6]) = 43
           /\ ret.hash = GenerateFromPassword(args.password, DefaultParams,
                                              [ok |-> TRUE, bytes |-> gen[1].salt]).hash

C9_Witness ==
    /\ op = "GenerateFromPassword"
    /\ policy = <<>>
    /\ ret.err = NoErr
    /\ Len(ret.hash) = 97

\* C10: on a string decodeHash rejects, CompareHashAndPassword,
\* ExtractParams and NeedsRehash return decodeHash's error; the KDF is not
\* invoked, no Params is returned and NeedsRehash's result is false.
C10_DecodeErrorsPropagate ==
    (op \in {"CompareHashAndPassword", "ExtractParams", "NeedsRehash"}
     /\ decodeHash(hashedPassword).err # NoErr) =>
        /\ ~ret.panicked
        /\ ret.err = decodeHash(hashedPassword).err
        /\ kdfLog = <<>>
        /\ ret.params = <<>>
        /\ ret.needs = FALSE

C10_Witness ==
    /\ op = "NeedsRehash"
    /\ args.newParams = <<>>
    /\ decodeHash(hashedPassword).err = ErrIncompatibleVersion
    /\ ret.err = ErrIncompatibleVersion

\* The functions that decode hashedPassword, and the string's $-segments.
DecodingOps == {"decodeHash", "CompareHashAndPassword", "ExtractParams", "NeedsRehash"}

Parts == Split(hashedPassword, "$")

SegmentCount == Cardinality({i \in 1..Len(hashedPassword) : hashedPassword[i] = "$"}) + 1

\* hashedPassword passes the length and the segment-count checks.
Framed == Len(hashedPassword) >= 30 /\ SegmentCount = 6

\* ... and carries the variant and version tags.
Tagged == Framed /\ Parts[2] = <<"a","r","g","o","n","2","i","d">> /\ Parts[3] = <<"v","=","1","9">>

\* C11: a string of at least 30 characters and six segments whose variant
\* is not argon2id yields IncompatibleVariant, and one with variant argon2id
\* and a version other than v=19 yields IncompatibleVersion, whatever the
\* other segments hold.
C11_VariantVersionRejection ==
    (op \in DecodingOps /\ Framed) =>
        /\ Parts[2] # <<"a","r","g","o","n","2","i","d">> => (~ret.panicked /\ ret.err = ErrIncompatibleVariant)
        /\ (Parts[2] = <<"a","r","g","o","n","2","i","d">> /\ Parts[3] # <<"v","=","1","9">>) =>
              (~ret.panicked /\ ret.err = ErrIncompatibleVersion)

C11_Witness ==
    /\ op = "CompareHashAndPassword"
    /\ Framed
    /\ Parts[2] # <<"a","r","g","o","n","2","i","d">>
    /\ Parts[3] # <<"v","=","1","9">>
    /\ parseParams(Parts[4]).err # NoErr
    /\ ret.err = ErrIncompatibleVariant

C13_SegmentCount ==
    (op \in DecodingOps /\ Len(hashedPassword) >= 30 /\ SegmentCount # 6) =>
        (~ret.panicked /\ ret.err = ErrInvalidHash)

C13_Witness ==
    /\ op = "CompareHashAndPassword"
    /\ Len(hashedPassword) >= 30
    /\ SegmentCount = 5
    /\ Parts[3] # <<"v","=","1","9">>
    /\ ret.err = ErrInvalidHash

\* The functions that return what decodeHash returned.
DecodeOps == {"decodeHash", "ExtractParams"}

\* C14: a string is decoded successfully only if it starts with $, i.e. its
\* first segment is empty.
C14_LeadingMarker ==
    (op \in DecodeOps /\ ret.err = NoErr) =>
        (Len(hashedPassword) > 0 /\ hashedPassword[1] = "$")

\* The comma-separated items of the parameter segment, and the two sides of
\* an item.
Items == Split(Parts[4], ",")

KeyOf(item) == Split(item, "=")[1]

ValueOf(item) == Split(item, "=")[2]

\* C15: a string is decoded successfully only if its parameter segment is
\* the three pairs m=..., t=..., p=... in that order.
C15_ParameterOrder ==
    (op \in DecodeOps /\ ret.err = NoErr) =>
        /\ Framed
        /\ Len(Items) = 3
        /\ KeyOf(Items[1]) = <<"m">>
        /\ KeyOf(Items[2]) = <<"t">>
        /\ KeyOf(Items[3]) = <<"p">>

AllDigits(s) == Len(s) > 0 /\ \A i \in 1..Len(s) : IsDigit(s[i])

\* item is key=value with a key of the format and an unsigned decimal value.
WellFormedItem(item) ==
    /\ Len(Split(item, "=")) = 2
    /\ KeyOf(item) \in {<<"m">>, <<"t">>, <<"p">>}
    /\ AllDigits(ValueOf(item))

MalformedList(items) ==
    Len(items) # 3 \/ \E i \in 1..Len(items) : ~WellFormedItem(items[i])

\* C16: a string with the right length, segment count, variant and version
\* whose parameter segment has a number of items other than 3, an item not
\* of the form key=value, a key other than m, t, p or a value that is not an
\* unsigned decimal integer yields InvalidFormat and no Params.
C16_MalformedParameterList ==
    (op \in DecodingOps /\ Tagged /\ MalformedList(Items)) =>
        (~ret.panicked /\ ret.err = ErrInvalidHash /\ ret.params = <<>>)

C16_Witness ==
    /\ op = "ExtractParams"
    /\ Tagged
    /\ Len(Items) = 3
    /\ \E i \in 1..3 : Len(Split(Items[i], "=")) = 3
    /\ \A i \in 1..3 : KeyOf(Items[i]) \in {<<"m">>, <<"t">>, <<"p">>}
    /\ ret.err = ErrInvalidHash
    /\ ret.params = <<>>

RECURSIVE StripZeros(_)
\* A numeral without its leading zeros.
StripZeros(ds) == IF Len(ds) > 1 /\ ds[1] = "0" THEN StripZeros(Tail(ds)) ELSE ds

\* Of two numerals without leading zeros, a is the greater number.
NumeralGreater(a, b) ==
    \/ Len(a) > Len(b)
    \/ /\ Len(a) = Len(b)
       /\ \E i \in 1..Len(a) :
             /\ DigitVal(a[i]) > DigitVal(b[i])
             /\ \A j \in 1..(i - 1) : a[j] = b[j]

LargestOf(key) ==
    IF key = <<"p">> THEN <<"2","5","5">>
    ELSE <<"4","2","9","4","9","6","7","2","9","5">>

Overflows(item) ==
    /\ WellFormedItem(item)
    /\ NumeralGreater(StripZeros(ValueOf(item)), LargestOf(KeyOf(item)))

\* The field of Params p that key names, as a 32-bit value.
FieldOf(p, key) ==
    IF key = <<"m">> THEN p.Memory
    ELSE IF key = <<"t">> THEN p.Time
    ELSE <<0, p.Threads>>

\* C17: a value of m or t above 2^32-1 or of p above 255 yields
\* InvalidFormat, and the memory, time and parallelism of a successful
\* decode are the decimal numbers written in the string.
C17_NoTruncationOnParse ==
    /\ (op \in DecodingOps /\ Tagged /\ \E i \in 1..Len(Items) : Overflows(Items[i])) =>
          (~ret.panicked /\ ret.err = ErrInvalidHash)
    /\ (op \in DecodeOps /\ ret.err = NoErr) =>
          \A i \in 1..Len(Items) :
              (\A j \in (i + 1)..Len(Items) : KeyOf(Items[j]) # KeyOf(Items[i])) =>
                  FormatUint(FieldOf(ret.params[1], KeyOf(Items[i]))) = StripZeros(ValueOf(Items[i]))

C17_Witness ==
    /\ op = "decodeHash"
    /\ Tagged
    /\ Len(Items) = 3
    /\ Overflows(Items[1])
    /\ KeyOf(Items[1]) = <<"m">>
    /\ ~Overflows(Items[2])
    /\ ~Overflows(Items[3])
    /\ ret.err = ErrInvalidHash

\* C18: a successful decode has a salt segment that decodes to exactly 16
\* bytes and a digest segment that decodes to at least 1 byte; a salt of
\* another length or an empty digest yields InvalidFormat.
C18_SaltAndDigestLengths ==
    /\ (op \in DecodeOps /\ ret.err = NoErr) =>
          /\ DecodeString(Parts[5]).ok
          /\ Len(DecodeString(Parts[5]).bytes) = 16
          /\ DecodeString(Parts[6]).ok
          /\ Len(DecodeString(Parts[6]).bytes) >= 1
    /\ (op = "decodeHash" /\ ret.err = NoErr) =>
          (Len(ret.salt) = 16 /\ Len(ret.digest) >= 1)
    /\ (/\ op \in DecodingOps
        /\ Tagged
        /\ \/ DecodeString(Parts[5]).ok /\ Len(DecodeString(Parts[5]).bytes) # 16
           \/ DecodeString(Parts[6]).ok /\ Len(DecodeString(Parts[6]).bytes) = 0) =>
          (~ret.panicked /\ ret.err = ErrInvalidHash)

C18_Witness ==
    /\ op = "ExtractParams"
    /\ Tagged
    /\ parseParams(Parts[4]).err = NoErr
    /\ DecodeString(Parts[5]).ok
    /\ Len(DecodeString(Parts[5]).bytes) = 17
    /\ DecodeString(Parts[6]).ok
    /\ Len(DecodeString(Parts[6]).bytes) >= 1
    /\ ret.err = ErrInvalidHash

\* C19: the KeyLen of a successful decode is the number of bytes the digest
\* segment decodes to, and ExtractParams of a generated hash returns the
\* KeyLen it was generated with.
C19_KeyLenInferred ==
    /\ (op \in DecodeOps /\ ret.err = NoErr) =>
          ret.params[1].KeyLen = U32(Len(DecodeString(Parts[6]).bytes))
    /\ (op = "ExtractParams" /\ gen # <<>>) =>
          (ret.err = NoErr /\ ret.params[1].KeyLen = gen[1].params.KeyLen)

C19_Witness ==
    /\ op = "ExtractParams"
    /\ gen # <<>>
    /\ gen[1].params.KeyLen = U32(MaxKeyLen)
    /\ ret.err = NoErr
    /\ ret.params[1].KeyLen = U32(MaxKeyLen)

\* The Params stored in hashedPassword.
Stored == decodeHash(hashedPassword).params[1]

\* C20: for a decodable hash and target Params, NeedsRehash returns true
\* exactly when the stored time is below the target's or the stored memory
\* is below the target's.
C20_RehashDecision ==
    (op = "NeedsRehash" /\ args.newParams # <<>> /\ decodeHash(hashedPassword).err = NoErr) =>
        /\ ~ret.panicked
        /\ ret.err = NoErr
        /\ ret.needs <=> \/ Lt32(Stored.Time, args.newParams[1].Time)
                         \/ Lt32(Stored.Memory, args.newParams[1].Memory)

C20_Witness ==
    /\ op = "NeedsRehash"
    /\ args.newParams # <<>>
    /\ decodeHash(hashedPassword).err = NoErr
    /\ Lt32(Stored.Time, args.newParams[1].Time)
    /\ Gt32(Stored.Memory, args.newParams[1].Memory)
    /\ Stored.Threads # args.newParams[1].Threads
    /\ Stored.KeyLen # args.newParams[1].KeyLen
    /\ ret.needs

\* The salt or the digest segment is not base64 of 16 bytes, or of at least
\* one byte.
BadSaltOrDigest ==
    \/ ~DecodeString(Parts[5]).ok
    \/ ~DecodeString(Parts[6]).ok
    \/ Len(DecodeString(Parts[5]).bytes) # 16
    \/ Len(DecodeString(Parts[6]).bytes) = 0

\* The error of the earliest check of the documented order that
\* hashedPassword fails; NoErr when it passes them all.
FirstFailure ==
    IF Len(hashedPassword) < 30 THEN ErrHashTooShort
    ELSE IF SegmentCount # 6 THEN ErrInvalidHash
    ELSE IF Parts[2] # <<"a","r","g","o","n","2","i","d">> THEN ErrIncompatibleVariant
    ELSE IF Parts[3] # <<"v","=","1","9">> THEN ErrIncompatibleVersion
    ELSE IF MalformedList(Items) \/ \E i \in 1..Len(Items) : Overflows(Items[i])
    THEN ErrInvalidHash
    ELSE IF BadSaltOrDigest THEN ErrInvalidHash
    ELSE NoErr

C24_OnlyCanonicalDecodes ==
    (op = "decodeHash" /\ ret.err = NoErr) =>
        encodeHash(ret.params[1], EncodeToString(ret.salt), EncodeToString(ret.digest))
            = hashedPassword

\* C25: a string of fewer than 30 characters fails one of the checks that
\* follow the length check, and GenerateFromPassword returns at least 30
\* characters.
C25_LengthThresholdRedundant ==
    /\ (op \in DecodingOps /\ Len(hashedPassword) < 30) => decodeParts(Parts).err # NoErr
    /\ (op \in DecodeOps /\ ret.err = NoErr) => Len(hashedPassword) >= 30
    /\ (op = "GenerateFromPassword" /\ ret.err = NoErr) => Len(ret.hash) >= 30

C25_Witness ==
    /\ op = "decodeHash"
    /\ Len(hashedPassword) < 30
    /\ SegmentCount = 6
    /\ validateVariantAndVersion(Parts[2], Parts[3]) = NoErr
    /\ parseParams(Parts[4]).err = NoErr
    /\ DecodeString(Parts[5]).ok
    /\ DecodeString(Parts[6]).ok
    /\ ret.err = ErrHashTooShort

\* C26: NeedsRehash returns a result for every newParams, nil included; it
\* never panics.
C26_NeedsRehashTotal == op = "NeedsRehash" => ~ret.panicked

\* C21: NeedsRehash of a generated hash against the Params it was generated
\* with is false, so a hash is never upgraded twice in a row to one target.
C21_RehashFixpoint ==
    /\ (op = "NeedsRehash" /\ gen # <<>> /\ args.newParams = <<gen[1].params>>) =>
          (~ret.panicked /\ ret.err = NoErr /\ ~ret.needs)
    /\ \A i \in 1..(Len(gen) - 1) :
          gen[i].why = "upgrade" => gen[i].params # gen[i + 1].params

C21_Witness ==
    /\ op = "NeedsRehash"
    /\ Len(gen) >= 2
    /\ gen[1].why = "upgrade"
    /\ args.newParams = <<gen[1].params>>
    /\ ~ret.needs
    /\ ret.err = NoErr

\* C22: two hashes generated from the same password with the same Params
\* are different strings, and both verify that password.
C22_Uniqueness ==
    \A i, j \in 1..Len(gen) :
        (i < j /\ gen[i].password = gen[j].password /\ gen[i].params = gen[j].params) =>
            /\ gen[i].hash # gen[j].hash
            /\ CompareHashAndPassword(gen[i].hash, gen[i].password).err = NoErr
            /\ CompareHashAndPassword(gen[j].hash, gen[j].password).err = NoErr

C22_Witness ==
    /\ op = "GenerateFromPassword"
    /\ ret.err = NoErr
    /\ Len(gen) >= 2
    /\ gen[1].why = "again"
    /\ gen[1].password = gen[2].password
    /\ gen[1].params = gen[2].params
    /\ gen[1].salt # gen[2].salt
    /\ gen[1].hash # gen[2].hash

\* The user's Password as a Login holding the lock reads it.
StoredPassword == Value(users[1], "?")

\* hash verifies password, by bcrypt or by argon2id as Login chooses.
Verifies(hash, password) ==
    IF isBcryptHash(hash) THEN bcryptCompareHashAndPassword(hash, password)
    ELSE CompareHashAndPassword(hash, password).err = NoErr

\* C27: the stored hash of the user always verifies the password the user
\* was created with.
C27_NoLockOut ==
    (users # <<>> /\ mu = 0) => Verifies(StoredPassword, created[1].password)

\* C28: once a Login has returned successfully, the stored hash is no
\* bcrypt hash; and once a Login that verified an argon2id hash has returned
\* successfully without a failed hash generation, NeedsRehash of the stored
\* hash against strongerParams is false.
C28_Convergence ==
    \A p \in Logins :
        (login[p].pc = "done" /\ login[p].result = "ok" /\ mu = 0) =>
            /\ ~isBcryptHash(StoredPassword)
            /\ (login[p].kind = "argon2id" /\ login[p].generated # "failed") =>
                  /\ NeedsRehash(StoredPassword, strongerParams).err = NoErr
                  /\ ~NeedsRehash(StoredPassword, strongerParams).needs

C28_Witness ==
    /\ created # <<>>
    /\ created[1].kind = "bcrypt"
    /\ mu = 0
    /\ \E p, q \in Logins :
          /\ login[p].pc = "done" /\ login[p].result = "ok" /\ login[p].kind = "bcrypt"
          /\ login[q].pc = "done" /\ login[q].result = "ok" /\ login[q].kind = "argon2id"
          /\ login[q].generated = "ok"
    /\ ExtractParams(StoredPassword).params = strongerParams

\* C29: migrateUserToArgon2id stores a hash at most once, and only over a
\* bcrypt hash; checkAndUpgradeHash stores a hash at most once, and only
\* over a hash that needs rehashing (while a store is half done, the word
\* not yet stored is still the old one); a Login that skips the store
\* returns successfully.
C29_NoDoubleMigration ==
    /\ writes.migrate <= 1
    /\ writes.upgrade <= 1
    /\ \A p \in Logins :
          /\ login[p].skipped => (login[p].pc = "done" /\ login[p].result = "ok")
          /\ login[p].pc = "migrating" =>
                (isBcryptHash(users[1].ptr) \/ users[1].len = 60)
          /\ login[p].pc = "upgrading" =>
                \/ NeedsRehash(users[1].ptr, strongerParams).needs
                \/ users[1].len < Len(login[p].newHash)

C29_Witness ==
    /\ writes.migrate = 1
    /\ \E p, q \in Logins :
          /\ login[p].pc = "done" /\ login[p].result = "ok" /\ login[p].kind = "bcrypt"
          /\ login[p].skipped
          /\ login[q].pc = "done" /\ login[q].result = "ok" /\ login[q].kind = "bcrypt"
          /\ ~login[q].skipped

\* C30: no Login is about to read user.Password without holding the mutex
\* while another Login is between the two stores of its assignment.
C30_ProperSynchronization ==
    \A p, q \in Logins :
        ~(login[p].pc \in {"verify", "check"} /\ login[q].pc \in {"migrating", "upgrading"})

====
